---- MODULE Spec2Model ----
(***************************************************************************)
(* Model of main.go: a command-line client of the YouTube Data API.        *)
(* The process loads .env, reads API_KEY, builds the API client, runs one  *)
(* command (one request, one response) and prints the result.              *)
(*                                                                         *)
(* The API client is an external collaborator: the outcome of call.Do()    *)
(* (an error, or a response with a list of items), of godotenv.Load, of    *)
(* youtube.NewService and of json.MarshalIndent are inputs, drawn from     *)
(* small sets.  Response items are taken to carry the parts the request    *)
(* asked for (Id and Snippet of a search result, ContentDetails of a       *)
(* channel).  Standard output is the sequence `out' of the Printf/Println  *)
(* calls made so far, each with the text it wrote.                         *)
(***************************************************************************)
EXTENDS Integers, Sequences, FiniteSets, TLC

VARIABLES
    cmd,        \* the command wired into main
    pc,         \* position of the process
    exit,       \* "running", "ok", "fatal" (log.Fatal) or "panic"
    logged,     \* what log.Fatal / log.Fatalf wrote
    envFile,    \* "unread", "missing" or "loaded": outcome of godotenv.Load
    apiKey,     \* os.Getenv(apiKeyEnv)
    service,    \* "none" or "constructed": the *youtube.Service
    request,    \* the request issued, or NoRequest
    doErr,      \* err of call.Do()
    items,      \* response.Items of call.Do()
    videos, channels_, playlists_,   \* the three maps of search
    idx,        \* number of items the range loop of search has consumed
    sec,        \* which printIDs call of search is running (1..3)
    todo,       \* keys the range loop of printIDs has not visited yet
    out,        \* standard output
    retErr,     \* error returned by the command
    retVal,     \* value returned by the command (chID, uploads)
    firstRead   \* TRUE once the command evaluated response.Items[0]

vars == <<cmd, pc, exit, logged, envFile, apiKey, service, request, doErr,
          items, videos, channels_, playlists_, idx, sec, todo, out,
          retErr, retVal, firstRead>>

----------------------------------------------------------------------------
(* Bounds and input sets *)

MaxItems == 2

IDs == {"a", "b"}
Titles == {"s", "t"}
Keys == {"", "k"}

Nil == "nil"
TransportErrs == {"net1", "net2"}
MarshalErr == "marshal"
ErrNoContent == "no content found"
ErrNoResult == "no result found"
ErrNotChannel == "result not channel type"

KindVideo == "youtube#video"
KindChannel == "youtube#channel"
KindPlaylist == "youtube#playlist"
KindOther == "youtube#other"

apiKeyEnv == "API_KEY"
DefaultMaxResults == 5
PlaylistItemsMaxResults == 3
PlaylistsMaxResults == 50
SearchChannelMaxResults == 1
UploadsMaxResults == 1

Commands == {"search", "videoDetails", "playlistItems", "playlists",
             "channels", "getChannelID", "getUploadsPlaylistID"}
DetailCmds == {"videoDetails", "playlistItems", "playlists", "channels"}
ValueCmds == {"getChannelID", "getUploadsPlaylistID"}

SeqsUpTo(S, n) == UNION {[1..k -> S] : k \in 0..n}

\* youtube.SearchResult: Id (kind and the id of the matching subtype) and
\* Snippet.Title
SearchItem(k, v, c, p, t) ==
    [kind |-> k, videoId |-> v, channelId |-> c, playlistId |-> p, title |-> t]

SearchItems ==
    {SearchItem(KindVideo, i, "", "", t) : i \in IDs, t \in Titles}
    \cup {SearchItem(KindChannel, "", i, "", t) : i \in IDs, t \in Titles}
    \cup {SearchItem(KindPlaylist, "", "", i, t) : i \in IDs, t \in Titles}
    \cup {SearchItem(KindOther, "", "", "", "s")}

\* a video / playlist / channel resource; uploads is
\* ContentDetails.RelatedPlaylists.Uploads
DetailItems == [id : IDs, uploads : {"u1", "u2"}]

SearchResponses == SeqsUpTo(SearchItems, MaxItems)
DetailResponses == SeqsUpTo(DetailItems, MaxItems)

DoErrs == {Nil} \cup TransportErrs

NoRequest == [endpoint |-> "none", maxResults |-> 0]
Request(e, m) == [endpoint |-> e, maxResults |-> m]

EmptyMap == [k \in {} |-> ""]

----------------------------------------------------------------------------
(* Standard output *)

Line(kind, text, data) == [kind |-> kind, text |-> text, data |-> data]

HeaderLine(sectionName) == Line("header", <<sectionName, ":\n">>, <<>>)

FormatEntry_swapped(id, title) == Line("entry", <<"[", title, "] ", id, "\n">>, <<>>)

FormatEntry(id, title) == Line("entry", <<"[", id, "] ", title, "\n">>, <<>>)

SepLine == Line("sep", <<"\n\n">>, <<>>)

Preamble(what) == Line("preamble", <<"get ", what>>, <<>>)

RawLine(its) == Line("raw", <<"%+v">>, its)

JSONLine(data) == Line("json", <<"indent">>, data)

ValueLine(v) == Line("value", <<v, "\n">>, <<>>)

----------------------------------------------------------------------------
(* search: grouping *)

MapPut_keepFirst(m, k, v) ==
    [x \in DOMAIN m \cup {k} |-> IF x \in DOMAIN m THEN m[x] ELSE v]

\* m[k] = v on a Go map
MapPut(m, k, v) ==
    [x \in DOMAIN m \cup {k} |-> IF x = k THEN v ELSE m[x]]

Group_wrongMap(item, maps) ==
    CASE item.kind = KindVideo ->
            [maps EXCEPT !.v = MapPut(maps.v, item.videoId, item.title)]
      [] item.kind = KindChannel ->
            [maps EXCEPT !.c = MapPut(maps.c, item.channelId, item.title)]
      [] item.kind = KindPlaylist ->
            [maps EXCEPT !.c = MapPut(maps.c, item.playlistId, item.title)]
      [] OTHER -> maps

\* the switch on item.Id.Kind
Group(item, maps) ==
    CASE item.kind = KindVideo ->
            [maps EXCEPT !.v = MapPut(maps.v, item.videoId, item.title)]
      [] item.kind = KindChannel ->
            [maps EXCEPT !.c = MapPut(maps.c, item.channelId, item.title)]
      [] item.kind = KindPlaylist ->
            [maps EXCEPT !.p = MapPut(maps.p, item.playlistId, item.title)]
      [] OTHER -> maps

SectionNames_reordered == <<"Channels", "Videos", "Playlists">>

\* the section names of the three printIDs calls of search, in call order
SectionNames == <<"Videos", "Channels", "Playlists">>

\* the map passed to the s-th printIDs call of search
SectionMap(s) ==
    CASE s = 1 -> videos
      [] s = 2 -> channels_
      [] s = 3 -> playlists_

----------------------------------------------------------------------------
(* Results of the one-request commands: what the function prints, what it  *)
(* returns, whether it indexed response.Items[0], whether it panicked      *)

Res(o, e, v, r, p) == [out |-> o, err |-> e, val |-> v, read0 |-> r, panic |-> p]

videoDetailsResult(e, its, mOK) ==
    LET pre == <<Preamble("video")>> IN
    IF e # Nil THEN Res(pre, e, "", FALSE, FALSE)
    ELSE IF Len(its) = 0
         THEN Res(pre \o <<RawLine(its)>>, ErrNoContent, "", FALSE, FALSE)
    ELSE IF ~mOK THEN Res(pre, MarshalErr, "", TRUE, FALSE)
    ELSE Res(pre \o <<JSONLine(<<its[1]>>)>>, Nil, "", TRUE, FALSE)

playlistItemsResult(e, its, mOK) ==
    LET pre == <<Preamble("video")>> IN
    IF e # Nil THEN Res(pre, e, "", FALSE, FALSE)
    ELSE IF Len(its) = 0
         THEN Res(pre \o <<RawLine(its)>>, ErrNoContent, "", FALSE, FALSE)
    ELSE IF ~mOK THEN Res(pre, MarshalErr, "", FALSE, FALSE)
    ELSE Res(pre \o <<JSONLine(its)>>, Nil, "", FALSE, FALSE)

playlistsResult_noCheck(e, its, mOK) ==
    LET pre == <<Preamble("playlist")>> IN
    IF e # Nil THEN Res(pre, e, "", FALSE, FALSE)
    ELSE IF ~mOK THEN Res(pre, MarshalErr, "", FALSE, FALSE)
    ELSE Res(pre \o <<JSONLine(its)>>, Nil, "", FALSE, FALSE)

playlistsResult(e, its, mOK) ==
    LET pre == <<Preamble("playlist")>> IN
    IF e # Nil THEN Res(pre, e, "", FALSE, FALSE)
    ELSE IF Len(its) = 0
         THEN Res(pre \o <<RawLine(its)>>, ErrNoContent, "", FALSE, FALSE)
    ELSE IF ~mOK THEN Res(pre, MarshalErr, "", FALSE, FALSE)
    ELSE Res(pre \o <<JSONLine(its)>>, Nil, "", FALSE, FALSE)

channelsResult(e, its, mOK) ==
    LET pre == <<Preamble("channels")>> IN
    IF e # Nil THEN Res(pre, e, "", FALSE, FALSE)
    ELSE IF Len(its) = 0
         THEN Res(pre \o <<RawLine(its)>>, ErrNoContent, "", FALSE, FALSE)
    ELSE IF ~mOK THEN Res(pre, MarshalErr, "", FALSE, FALSE)
    ELSE Res(pre \o <<JSONLine(its)>>, Nil, "", FALSE, FALSE)

getChannelIDResult_noKindCheck(e, its, mOK) ==
    LET pre == <<Preamble("channels")>> IN
    IF e # Nil THEN Res(pre, e, "", FALSE, FALSE)
    ELSE IF Len(its) = 0 THEN Res(pre, ErrNoResult, "", FALSE, FALSE)
    ELSE IF ~mOK THEN Res(pre, MarshalErr, "", TRUE, FALSE)
    ELSE Res(pre \o <<JSONLine(its)>>, Nil, its[1].channelId, TRUE, FALSE)

getChannelIDResult(e, its, mOK) ==
    LET pre == <<Preamble("channels")>> IN
    IF e # Nil THEN Res(pre, e, "", FALSE, FALSE)
    ELSE IF Len(its) = 0 THEN Res(pre, ErrNoResult, "", FALSE, FALSE)
    ELSE IF its[1].kind # KindChannel
         THEN Res(pre, ErrNotChannel, "", TRUE, FALSE)
    ELSE IF ~mOK THEN Res(pre, MarshalErr, "", TRUE, FALSE)
    ELSE Res(pre \o <<JSONLine(its)>>, Nil, its[1].channelId, TRUE, FALSE)

getUploadsPlaylistIDResult_checked(e, its, mOK) ==
    IF e # Nil THEN Res(<<>>, e, "", FALSE, FALSE)
    ELSE IF Len(its) = 0 THEN Res(<<>>, ErrNoContent, "", FALSE, FALSE)
    ELSE Res(<<>>, Nil, its[1].uploads, TRUE, FALSE)

\* response.Items[0] with no length check: index out of range on an
\* empty list
getUploadsPlaylistIDResult(e, its, mOK) ==
    IF e # Nil THEN Res(<<>>, e, "", FALSE, FALSE)
    ELSE IF Len(its) = 0 THEN Res(<<>>, Nil, "", TRUE, TRUE)
    ELSE Res(<<>>, Nil, its[1].uploads, TRUE, FALSE)

----------------------------------------------------------------------------
TypeOK ==
    /\ cmd \in Commands
    /\ exit \in {"running", "ok", "fatal", "panic"}
    /\ idx \in 0..MaxItems
    /\ sec \in 0..3

Init ==
    /\ cmd \in Commands
    /\ pc = "main"
    /\ exit = "running"
    /\ logged = <<>>
    /\ envFile = "unread"
    /\ apiKey = ""
    /\ service = "none"
    /\ request = NoRequest
    /\ doErr = Nil
    /\ items = <<>>
    /\ videos = EmptyMap
    /\ channels_ = EmptyMap
    /\ playlists_ = EmptyMap
    /\ idx = 0
    /\ sec = 0
    /\ todo = {}
    /\ out = <<>>
    /\ retErr = Nil
    /\ retVal = ""
    /\ firstRead = FALSE

searchVars == <<videos, channels_, playlists_, idx, sec, todo>>
callVars == <<request, doErr, items, retErr, retVal, firstRead>>
mainVars == <<envFile, apiKey, service>>

----------------------------------------------------------------------------
(* main, up to the command *)

\* godotenv.Load, then os.Getenv(apiKeyEnv); a failed Load is fatal, the
\* value of the variable is not inspected
LoadEnv ==
    /\ pc = "main"
    /\ \E ok \in BOOLEAN, key \in Keys :
          IF ~ok
          THEN /\ envFile' = "missing"
               /\ logged' = <<"Error loading .env file">>
               /\ exit' = "fatal"
               /\ pc' = "exit"
               /\ UNCHANGED apiKey
          ELSE /\ envFile' = "loaded"
               /\ apiKey' = key
               /\ pc' = "newService"
               /\ UNCHANGED <<logged, exit>>
    /\ UNCHANGED <<cmd, service, out>>
    /\ UNCHANGED callVars
    /\ UNCHANGED searchVars

\* youtube.NewService(ctx, option.WithAPIKey(apiKey))
NewService ==
    /\ pc = "newService"
    /\ \E ok \in BOOLEAN :
          IF ok
          THEN /\ service' = "constructed"
               /\ pc' = "call"
               /\ UNCHANGED <<logged, exit>>
          ELSE /\ logged' = <<"Error creating new YouTube client: ", "err">>
               /\ exit' = "fatal"
               /\ pc' = "exit"
               /\ UNCHANGED service
    /\ UNCHANGED <<cmd, envFile, apiKey, out>>
    /\ UNCHANGED callVars
    /\ UNCHANGED searchVars

----------------------------------------------------------------------------
(* The one-request commands *)

\* the effect of a command that ran to its return (or to its panic)
Finish(req, e, its, r) ==
    /\ request' = req
    /\ doErr' = e
    /\ items' = its
    /\ out' = out \o r.out
    /\ firstRead' = r.read0
    /\ IF r.panic
       THEN /\ exit' = "panic"
            /\ pc' = "exit"
            /\ UNCHANGED <<retErr, retVal>>
       ELSE /\ retErr' = r.err
            /\ retVal' = r.val
            /\ pc' = "handleError"
            /\ UNCHANGED exit
    /\ UNCHANGED <<cmd, logged>>
    /\ UNCHANGED mainVars
    /\ UNCHANGED searchVars

\* a response comes only with a nil error
Outcome(e, its) == e # Nil => its = <<>>

videoDetails ==
    /\ pc = "call" /\ cmd = "videoDetails"
    /\ \E e \in DoErrs, its \in DetailResponses, mOK \in BOOLEAN :
          /\ Outcome(e, its)
          /\ Finish(Request("videos.list", 0), e, its,
                    videoDetailsResult(e, its, mOK))

playlistItems ==
    /\ pc = "call" /\ cmd = "playlistItems"
    /\ \E e \in DoErrs, its \in DetailResponses, mOK \in BOOLEAN :
          /\ Outcome(e, its)
          /\ Finish(Request("playlistItems.list", PlaylistItemsMaxResults),
                    e, its, playlistItemsResult(e, its, mOK))

playlists ==
    /\ pc = "call" /\ cmd = "playlists"
    /\ \E e \in DoErrs, its \in DetailResponses, mOK \in BOOLEAN :
          /\ Outcome(e, its)
          /\ Finish(Request("playlists.list", PlaylistsMaxResults),
                    e, its, playlistsResult(e, its, mOK))

channels ==
    /\ pc = "call" /\ cmd = "channels"
    /\ \E e \in DoErrs, its \in DetailResponses, mOK \in BOOLEAN :
          /\ Outcome(e, its)
          /\ Finish(Request("channels.list", 0), e, its,
                    channelsResult(e, its, mOK))

getChannelID ==
    /\ pc = "call" /\ cmd = "getChannelID"
    /\ \E e \in DoErrs, its \in SearchResponses, mOK \in BOOLEAN :
          /\ Outcome(e, its)
          /\ Finish(Request("search.list", SearchChannelMaxResults), e, its,
                    getChannelIDResult(e, its, mOK))

getUploadsPlaylistID ==
    /\ pc = "call" /\ cmd = "getUploadsPlaylistID"
    /\ \E e \in DoErrs, its \in DetailResponses :
          /\ Outcome(e, its)
          /\ Finish(Request("channels.list", UploadsMaxResults), e, its,
                    getUploadsPlaylistIDResult(e, its, TRUE))

----------------------------------------------------------------------------
(* search, statement by statement *)

searchDo_printsOnError ==
    /\ pc = "call" /\ cmd = "search"
    /\ \E e \in DoErrs, its \in SearchResponses :
          /\ Outcome(e, its)
          /\ request' = Request("search.list", DefaultMaxResults)
          /\ doErr' = e
          /\ items' = its
          /\ videos' = EmptyMap
          /\ channels_' = EmptyMap
          /\ playlists_' = EmptyMap
          /\ idx' = 0
          /\ pc' = "searchLoop"
          /\ retErr' = IF e # Nil THEN "request failed" ELSE retErr
    /\ UNCHANGED <<cmd, exit, logged, sec, todo, out, retVal, firstRead>>
    /\ UNCHANGED mainVars

\* call.Do(); return err on failure, else make the three maps
searchDo ==
    /\ pc = "call" /\ cmd = "search"
    /\ \E e \in DoErrs, its \in SearchResponses :
          /\ Outcome(e, its)
          /\ request' = Request("search.list", DefaultMaxResults)
          /\ doErr' = e
          /\ items' = its
          /\ IF e # Nil
             THEN /\ retErr' = e
                  /\ pc' = "handleError"
                  /\ UNCHANGED <<videos, channels_, playlists_, idx>>
             ELSE /\ videos' = EmptyMap
                  /\ channels_' = EmptyMap
                  /\ playlists_' = EmptyMap
                  /\ idx' = 0
                  /\ pc' = "searchLoop"
                  /\ UNCHANGED retErr
    /\ UNCHANGED <<cmd, exit, logged, sec, todo, out, retVal, firstRead>>
    /\ UNCHANGED mainVars

\* one iteration of  for _, item := range response.Items
searchLoop ==
    /\ pc = "searchLoop"
    /\ idx < Len(items)
    /\ LET item == items[idx + 1]
           maps == Group(item, [v |-> videos, c |-> channels_, p |-> playlists_])
       IN /\ videos' = maps.v
          /\ channels_' = maps.c
          /\ playlists_' = maps.p
    /\ idx' = idx + 1
    /\ UNCHANGED <<cmd, pc, exit, logged, sec, todo, out>>
    /\ UNCHANGED mainVars
    /\ UNCHANGED callVars

\* the range loop is over: on to printIDs("Videos", videos)
searchLoopEnd ==
    /\ pc = "searchLoop"
    /\ idx = Len(items)
    /\ sec' = 1
    /\ pc' = "printIDs"
    /\ UNCHANGED <<cmd, exit, logged, videos, channels_, playlists_, idx, todo, out>>
    /\ UNCHANGED mainVars
    /\ UNCHANGED callVars

\* fmt.Printf("%v:\n", sectionName)
printIDsHeader ==
    /\ pc = "printIDs"
    /\ out' = Append(out, HeaderLine(SectionNames[sec]))
    /\ todo' = DOMAIN SectionMap(sec)
    /\ pc' = "range"
    /\ UNCHANGED <<cmd, exit, logged, videos, channels_, playlists_, idx, sec>>
    /\ UNCHANGED mainVars
    /\ UNCHANGED callVars

\* one iteration of  for id, title := range matches  (Go visits the keys of
\* a map in an unspecified order)
printIDsEntry ==
    /\ pc = "range"
    /\ \E id \in todo :
          /\ out' = Append(out, FormatEntry(id, SectionMap(sec)[id]))
          /\ todo' = todo \ {id}
    /\ UNCHANGED <<cmd, pc, exit, logged, videos, channels_, playlists_, idx, sec>>
    /\ UNCHANGED mainVars
    /\ UNCHANGED callVars

\* fmt.Printf("\n\n"), and back in search: the next printIDs call, or
\* the return
printIDsSep ==
    /\ pc = "range"
    /\ todo = {}
    /\ out' = Append(out, SepLine)
    /\ IF sec < 3
       THEN /\ sec' = sec + 1
            /\ pc' = "printIDs"
       ELSE /\ pc' = "searchReturn"
            /\ UNCHANGED sec
    /\ UNCHANGED <<cmd, exit, logged, videos, channels_, playlists_, idx, todo>>
    /\ UNCHANGED mainVars
    /\ UNCHANGED callVars

\* return nil
searchReturn ==
    /\ pc = "searchReturn"
    /\ retErr' = Nil
    /\ pc' = "handleError"
    /\ UNCHANGED <<cmd, exit, logged, out, request, doErr, items, retVal, firstRead>>
    /\ UNCHANGED mainVars
    /\ UNCHANGED searchVars

----------------------------------------------------------------------------
(* main, after the command *)

\* the message main passes to handleError for each command (search has no
\* call site in main; it is given the empty message)
Message(c) ==
    CASE c = "videoDetails" -> "show video details"
      [] c = "playlistItems" -> "show playlist"
      [] c = "playlists" -> "show playlists"
      [] c = "channels" -> "show playlists"
      [] c = "getUploadsPlaylistID" -> "getUploadsPlaylistID"
      [] c = "getChannelID" -> "getChannelID"
      [] OTHER -> ""

DefaultMessage(message) ==
    IF message = "" THEN "Error making API call" ELSE message

handleError_ignores ==
    /\ pc = "handleError"
    /\ pc' = IF cmd \in ValueCmds THEN "printResult" ELSE "return"
    /\ UNCHANGED <<cmd, out, logged, exit>>
    /\ UNCHANGED mainVars
    /\ UNCHANGED callVars
    /\ UNCHANGED searchVars

\* handleError(err, message): log.Fatalf when err != nil
handleError ==
    /\ pc = "handleError"
    /\ IF retErr # Nil
       THEN /\ logged' = <<DefaultMessage(Message(cmd)), ": ", retErr>>
            /\ exit' = "fatal"
            /\ pc' = "exit"
       ELSE /\ pc' = IF cmd \in ValueCmds THEN "printResult" ELSE "return"
            /\ UNCHANGED <<logged, exit>>
    /\ UNCHANGED <<cmd, out>>
    /\ UNCHANGED mainVars
    /\ UNCHANGED callVars
    /\ UNCHANGED searchVars

\* fmt.Println(chID) / fmt.Println(uploads)
printResult ==
    /\ pc = "printResult"
    /\ out' = Append(out, ValueLine(retVal))
    /\ pc' = "return"
    /\ UNCHANGED <<cmd, exit, logged>>
    /\ UNCHANGED mainVars
    /\ UNCHANGED callVars
    /\ UNCHANGED searchVars

\* main returns
mainReturn ==
    /\ pc = "return"
    /\ exit' = "ok"
    /\ pc' = "exit"
    /\ UNCHANGED <<cmd, logged, out>>
    /\ UNCHANGED mainVars
    /\ UNCHANGED callVars
    /\ UNCHANGED searchVars

Next ==
    \/ LoadEnv
    \/ NewService
    \/ videoDetails
    \/ playlistItems
    \/ playlists
    \/ channels
    \/ getChannelID
    \/ getUploadsPlaylistID
    \/ searchDo
    \/ searchLoop
    \/ searchLoopEnd
    \/ printIDsHeader
    \/ printIDsEntry
    \/ printIDsSep
    \/ searchReturn
    \/ handleError
    \/ printResult
    \/ mainReturn

Spec == Init /\ [][Next]_vars

----------------------------------------------------------------------------
(* Reading standard output *)

OutKinds == {out[i].kind : i \in DOMAIN out}

\* printed results, as opposed to the "get ..." line printed before the call
ResultKinds == {"header", "entry", "sep", "raw", "json", "value"}

SepPos == {i \in DOMAIN out : out[i].text = <<"\n\n">>}

NthSep(n) == CHOOSE i \in SepPos : Cardinality({j \in SepPos : j <= i}) = n

\* the s-th block of the output of search: from after the previous separator
\* up to and including the s-th separator
Block(s) == SubSeq(out, IF s = 1 THEN 1 ELSE NthSep(s - 1) + 1, NthSep(s))

\* the lines of a block between its first and its last line
Entries(b) == SubSeq(b, 2, Len(b) - 1)

ItemKey(it) ==
    CASE it.kind = KindVideo -> it.videoId
      [] it.kind = KindChannel -> it.channelId
      [] it.kind = KindPlaylist -> it.playlistId
      [] OTHER -> ""

SectionKind == <<KindVideo, KindChannel, KindPlaylist>>

\* positions among the first n items whose kind is that of section s
Of(s, n) == {i \in 1..n : i <= Len(items) /\ items[i].kind = SectionKind[s]}

Last(S) == CHOOSE i \in S : \A j \in S : j <= i

\* after the call returned a response / an error
Called == request # NoRequest
Succeeded == Called /\ doErr = Nil
InSearch == cmd = "search" /\ Succeeded

----------------------------------------------------------------------------
(* C1: each iteration of the loop of search puts an item of kind video,    *)
(* channel or playlist into the one map of its kind, under the id of that  *)
(* subtype and with the item's title, and leaves the other two maps alone; *)
(* an item of any other kind changes none of the three maps.  When the     *)
(* loop ends, the keys of each map are exactly the ids of the items of its *)
(* kind.                                                                   *)
C1_Placed(m, m2, k, t) ==
    /\ DOMAIN m2 = DOMAIN m \cup {k}
    /\ m2[k] = t
    /\ \A x \in DOMAIN m \ {k} : m2[x] = m[x]

C1_GroupByKind ==
    [][ /\ (pc = "searchLoop" /\ idx' = idx + 1) =>
             LET item == items[idx + 1] IN
             CASE item.kind = "youtube#video" ->
                     /\ C1_Placed(videos, videos', item.videoId, item.title)
                     /\ channels_' = channels_ /\ playlists_' = playlists_
               [] item.kind = "youtube#channel" ->
                     /\ C1_Placed(channels_, channels_', item.channelId, item.title)
                     /\ videos' = videos /\ playlists_' = playlists_
               [] item.kind = "youtube#playlist" ->
                     /\ C1_Placed(playlists_, playlists_', item.playlistId, item.title)
                     /\ videos' = videos /\ channels_' = channels_
               [] OTHER ->
                     /\ videos' = videos
                     /\ channels_' = channels_
                     /\ playlists_' = playlists_
        /\ (pc = "searchLoop" /\ pc' = "printIDs") =>
             /\ DOMAIN videos = {items[i].videoId : i \in Of(1, Len(items))}
             /\ DOMAIN channels_ = {items[i].channelId : i \in Of(2, Len(items))}
             /\ DOMAIN playlists_ = {items[i].playlistId : i \in Of(3, Len(items))}
      ]_vars

C1_Witness ==
    /\ InSearch /\ pc = "printIDs" /\ idx = 2
    /\ items[1].kind = KindOther
    /\ items[2].kind = KindVideo
    /\ DOMAIN videos = {items[2].videoId}
    /\ channels_ = EmptyMap
    /\ playlists_ = EmptyMap

(* C2: a detail command (videoDetails, playlistItems, playlists, channels) *)
(* whose request succeeds with no items returns "no content found", does   *)
(* not index the first item and prints no indented JSON.                   *)
C2_EmptyDetail ==
    (cmd \in DetailCmds /\ Succeeded /\ items = <<>>) =>
        /\ retErr = "no content found"
        /\ ~firstRead
        /\ exit # "panic"
        /\ "json" \notin OutKinds

C2_Witness ==
    /\ cmd = "playlists" /\ Succeeded /\ items = <<>>
    /\ exit = "fatal"
    /\ "raw" \in OutKinds

(* C3: getChannelID returns an id only for a response whose first item is  *)
(* of kind channel, and the id is that item's channel id; no items give    *)
(* "no result found", a first item of another kind gives "result not       *)
(* channel type" and the empty string.  The response JSON is printed only  *)
(* when the function returns no error, and before main prints the id.      *)
C3_GetChannelID ==
    (cmd = "getChannelID" /\ Called) =>
        /\ retVal # "" =>
             /\ doErr = Nil /\ Len(items) >= 1
             /\ items[1].kind = "youtube#channel"
             /\ retVal = items[1].channelId
             /\ retErr = Nil
        /\ (doErr = Nil /\ items = <<>>) =>
             (retErr = "no result found" /\ retVal = "")
        /\ (doErr = Nil /\ Len(items) >= 1 /\ items[1].kind # "youtube#channel") =>
             (retErr = "result not channel type" /\ retVal = "")
        /\ "json" \in OutKinds <=> retErr = Nil
        /\ \A i, j \in DOMAIN out :
             (out[i].kind = "json" /\ out[j].kind = "value") => i < j

C3_Witness ==
    /\ cmd = "getChannelID" /\ Succeeded
    /\ Len(items) >= 1 /\ items[1].kind = KindVideo
    /\ retErr = ErrNotChannel
    /\ pc = "handleError"

(* C4: once the .env file is found missing, or API_KEY is found empty, the *)
(* process is aborted with no client constructed and no request issued.    *)
C4_AbortsOnMissingConfig ==
    (envFile = "missing" \/ (envFile = "loaded" /\ apiKey = "")) =>
        /\ exit = "fatal"
        /\ service = "none"
        /\ request = NoRequest

(* C5: handleError with a non-nil error ends the process (fatal) without   *)
(* printing; with a nil error it changes nothing and main goes on.  The    *)
(* command's value is printed only when the command returned no error.     *)
C5_HandleError ==
    [][ /\ pc = "handleError" =>
             IF retErr # Nil
             THEN exit' = "fatal" /\ pc' = "exit" /\ out' = out
                  /\ logged' # logged
             ELSE exit' = exit /\ logged' = logged /\ out' = out
                  /\ pc' \in {"printResult", "return"}
        /\ (\E i \in DOMAIN out' : out'[i].kind = "value") =>
             (retErr' = Nil /\ exit' # "fatal")
      ]_vars

C5_Witness ==
    /\ cmd = "getChannelID" /\ Called
    /\ retErr \in TransportErrs
    /\ exit = "fatal"
    /\ logged = <<"getChannelID", ": ", retErr>>

(* C6: every finished printIDs block is the header of its section, then    *)
(* one line "[id] title" per entry of the map it was given (each entry     *)
(* once), then the blank separator; for an empty map, header and separator *)
(* only.                                                                   *)
C6_PrintIDs ==
    InSearch =>
        \A s \in 1..Cardinality(SepPos) :
            LET b == Block(s)
                m == SectionMap(s)
                e == Entries(b)
            IN /\ b[1].text = <<SectionNames[s], ":\n">>
               /\ b[Len(b)].text = <<"\n\n">>
               /\ Len(e) = Cardinality(DOMAIN m)
               /\ {e[i].text : i \in DOMAIN e}
                    = {<<"[", k, "] ", m[k], "\n">> : k \in DOMAIN m}

C6_Witness ==
    /\ InSearch /\ pc = "handleError"
    /\ Cardinality(SepPos) = 3
    /\ Cardinality(DOMAIN videos) = 2
    /\ playlists_ = EmptyMap
    /\ Len(Block(1)) = 4
    /\ Len(Block(3)) = 2

(* C7: getUploadsPlaylistID on a successful response with no items panics  *)
(* (index out of range) and returns nothing; with at least one item it     *)
(* returns the first item's uploads id and a nil error.                    *)
C7_Uploads ==
    (cmd = "getUploadsPlaylistID" /\ Succeeded) =>
        IF items = <<>>
        THEN /\ exit = "panic" /\ pc = "exit"
             /\ retVal = "" /\ logged = <<>>
             /\ "value" \notin OutKinds
        ELSE /\ exit # "panic"
             /\ retErr = Nil
             /\ retVal = items[1].uploads

C7_Witness ==
    /\ cmd = "getUploadsPlaylistID" /\ Succeeded
    /\ items = <<>>
    /\ exit = "panic"

(* C8: a command whose request fails returns the error of the request      *)
(* itself and prints no result: no section block, no JSON, no value.       *)
C8_TransportError ==
    (Called /\ doErr # Nil) =>
        /\ retErr = doErr
        /\ retVal = ""
        /\ OutKinds \cap ResultKinds = {}
        /\ pc \in {"handleError", "exit"}

C8_Witness ==
    /\ cmd = "search" /\ Called
    /\ doErr = "net2" /\ retErr = "net2"
    /\ exit = "fatal"
    /\ out = <<>>

(* C9: each map of search holds, for every id of its kind seen so far, the *)
(* title of the last item with that id; a finished section has as many     *)
(* entry lines as there are distinct ids of its kind among the items.      *)
C9_LastWriteWins ==
    (InSearch /\ pc # "call") =>
        /\ \A s \in 1..3 :
             LET m == SectionMap(s) IN
             /\ DOMAIN m = {ItemKey(items[i]) : i \in Of(s, idx)}
             /\ \A k \in DOMAIN m :
                  m[k] = items[Last({i \in Of(s, idx) : ItemKey(items[i]) = k})].title
        /\ \A s \in 1..Cardinality(SepPos) :
             Len(Entries(Block(s)))
               = Cardinality({ItemKey(items[i]) : i \in Of(s, Len(items))})

C9_Witness ==
    /\ InSearch /\ pc = "handleError"
    /\ Len(items) = 2
    /\ \A i \in 1..2 : items[i].kind = KindVideo /\ items[i].videoId = "a"
    /\ items[1].title = "t" /\ items[2].title = "s"
    /\ videos["a"] = "s"
    /\ Len(Entries(Block(1))) = 1

(* C10: search never returns "no content found"; once its request has     *)
(* succeeded and it has returned, it has printed the three blocks Videos,  *)
(* Channels, Playlists in that order, each closed by its separator, and    *)
(* returned nil.                                                           *)
C10_SearchAlwaysPrints ==
    cmd = "search" =>
        /\ retErr # "no content found"
        /\ (InSearch /\ pc \in {"handleError", "return", "exit"}) =>
             /\ retErr = Nil
             /\ exit # "fatal"
             /\ Cardinality(SepPos) = 3
             /\ \A s \in 1..3 :
                  Block(s)[1].text = << <<"Videos", "Channels", "Playlists">>[s], ":\n" >>

C10_Witness ==
    /\ InSearch /\ exit = "ok"
    /\ items = <<>>
    /\ Len(out) = 6

====
